---- MODULE Spec2Model ----
(***************************************************************************)
(* Model of import-xml-into-datarobot.py: the PI AF XML flattener          *)
(* (_txt, _walk_attributes, _walk_elements, parse_af_xml) and the          *)
(* DataRobot registration / polling pipeline driven by main().             *)
(*                                                                         *)
(* Strings are sequences of one-character strings.  An Optional value is   *)
(* a tuple of length 0 (None) or 1 (the value), so that None, "" and " "   *)
(* are three different values.                                             *)
(***************************************************************************)
EXTENDS Integers, Sequences, FiniteSets, TLC

\* ---------------------------------------------------------------- bounds
\* Largest number of AFElement / AFAttribute nodes below AFDatabase.
MaxNodes == 4
\* Largest number of nodes of the documents main() is run on.
MaxMainNodes == 2
\* Longest time (seconds) one dr.Dataset.get call may take.
MaxGetDelay == 1

\* ------------------------------------------------------------ Optional[T]
None == <<>>
Some(v) == <<v>>
IsNone(o) == o = <<>>
Val(o) == o[1]

\* ---------------------------------------------------------------- strings
IsSpace(c) == c \in {" ", "\t", "\n", "\r"}

RECURSIVE LStrip(_)
LStrip(s) == IF s # <<>> /\ IsSpace(Head(s)) THEN LStrip(Tail(s)) ELSE s

RECURSIVE RStrip(_)
RStrip(s) ==
    IF s # <<>> /\ IsSpace(s[Len(s)]) THEN RStrip(SubSeq(s, 1, Len(s) - 1)) ELSE s

\* str.strip()
Strip(s) == RStrip(LStrip(s))

\* The placeholder literals of _walk_attributes and _walk_elements.
UNNAMED == <<"(", "u", "n", "n", "a", "m", "e", "d", ")">>
UNNAMED_ELEMENT ==
    <<"(", "u", "n", "n", "a", "m", "e", "d", " ", "e", "l", "e", "m", "e", "n", "t", ")">>

\* x or y, for an Optional[str] x that is never Some("") and a str y.
OrElse(o, dflt) == IF IsNone(o) THEN dflt ELSE Val(o)

\* JoinPath without the test of the prefix.
JoinPathAlways(prefix, name) == prefix \o <<"/">> \o name

\* JoinPath that forgets the prefix.
JoinPathNameOnly(prefix, name) == name

\* f"{prefix}/{name}" if prefix else name
JoinPath(prefix, name) == IF prefix # <<>> THEN prefix \o <<"/">> \o name ELSE name

\* ----------------------------------------------------------- the document
\* A node of the parsed tree below AFDatabase.  parent = 0 is AFDatabase.
\* A child tag such as Name is an Optional[Element]; the Element is
\* represented by its .text, itself an Optional[str].
NoChild == None
ChildNoText == Some(None)
ChildText(s) == Some(Some(s))

\* Element.findall(tag) restricted to the AFElement / AFAttribute children:
\* the children of node p carrying that tag, in document order.
RECURSIVE FindAllFrom(_, _, _, _)
FindAllFrom(nodes, p, tag, i) ==
    IF i > Len(nodes) THEN <<>>
    ELSE (IF nodes[i].parent = p /\ nodes[i].tag = tag THEN <<i>> ELSE <<>>)
         \o FindAllFrom(nodes, p, tag, i + 1)

\* find() in place of findall(): only the first matching child.
FindFirst(nodes, p, tag) ==
    LET all == FindAllFrom(nodes, p, tag, 1) IN IF all = <<>> THEN <<>> ELSE <<Head(all)>>

\* The matching children in reverse document order.
FindAllReversed(nodes, p, tag) ==
    LET all == FindAllFrom(nodes, p, tag, 1)
    IN [i \in 1..Len(all) |-> all[Len(all) + 1 - i]]

FindAll(nodes, p, tag) == FindAllFrom(nodes, p, tag, 1)

\* _txt(elem): None when the child is missing, has no text, or is blank.
Txt(elem) ==
    IF IsNone(elem) \/ IsNone(Val(elem)) THEN None
    ELSE LET t == Strip(Val(Val(elem))) IN IF t # <<>> THEN Some(t) ELSE None

\* ------------------------------------------------------------------ state
VARIABLES
    xml,        \* the parsed document: [hasDb, nodes]
    pc,         \* position of the run
    stack,      \* call stack of parse_af_xml / _walk_elements / _walk_attributes
    rows,       \* the accumulator list passed down the recursion
    emitted,    \* history: for each row, the node whose visit appended it
    df,         \* the DataFrame returned by parse_af_xml
    exc,        \* the exception that ended the run, if any
    platform,   \* what DataRobot holds and has been asked to do
    dataset,    \* the Dataset object held by main
    poll        \* locals of get_dataset_summary_with_refresh and the clock

vars == <<xml, pc, stack, rows, emitted, df, exc, platform, dataset, poll>>

AFElement == "AFElement"
AFAttribute == "AFAttribute"

\* ordered_cols of parse_af_xml.
ordered_cols ==
    << "element_path", "element_name", "element_template", "attribute_path",
       "attribute_name", "attribute_type", "data_reference", "config_string",
       "static_value", "description" >>

\* The keys of the dict literal of _walk_attributes, in insertion order.
row_keys ==
    << "element_path", "element_name", "element_template", "attribute_path",
       "attribute_name", "attribute_type", "data_reference", "config_string",
       "static_value", "description" >>

\* The dict appended by _walk_attributes for attribute node a.
RowDict(a, element_path, element_name, element_template, attr_path, attr_name) ==
    [ element_path     |-> element_path,
      element_name     |-> element_name,
      element_template |-> element_template,
      attribute_path   |-> attr_path,
      attribute_name   |-> attr_name,
      attribute_type   |-> Txt(a.Type),
      data_reference   |-> Txt(a.DataReference),
      config_string    |-> Txt(a.ConfigString),
      static_value     |-> Txt(a.Value),
      description      |-> Txt(a.Description) ]

\* Name resolution of the two walkers.
AttrName(a) == OrElse(Txt(a.Name), UNNAMED)

\* _walk_elements using the placeholder of _walk_attributes.
ElementNameUnnamed(e) == OrElse(Txt(e.Name), UNNAMED)

ElementName(e) == OrElse(Txt(e.Name), UNNAMED_ELEMENT)

\* A call-stack frame.  attrs / elems are the not yet visited items of the
\* two for-loops of the frame's function.
Frame(fn, node, attrs, elems, epath, ename, etempl, apath) ==
    [ fn |-> fn, node |-> node, attrs |-> attrs, elems |-> elems,
      element_path |-> epath, element_name |-> ename,
      element_template |-> etempl, attr_path |-> apath ]

Top == stack[Len(stack)]
ReplaceTop(f) == [stack EXCEPT ![Len(stack)] = f]

\* A walker whose loops are exhausted returns to its caller, and so on up
\* the stack, until a frame with a loop item left (or parse_af_xml) is on top.
RECURSIVE Unwind(_)
Unwind(st) ==
    LET f == st[Len(st)]
    IN IF f.fn # "parse_af_xml" /\ f.attrs = <<>> /\ f.elems = <<>>
       THEN Unwind(SubSeq(st, 1, Len(st) - 1))
       ELSE st

\* ------------------------------------------------------------ parse_af_xml
\* A missing AFDatabase treated as a database without elements.
ParseNoDatabaseAsEmpty ==
    /\ pc = "parse"
    /\ ~xml.hasDb
    /\ pc' = "walk"
    /\ rows' = <<>>
    /\ emitted' = <<>>
    /\ stack' = << [ fn |-> "parse_af_xml", node |-> 0, attrs |-> <<>>, elems |-> <<>>,
                     element_path |-> <<>>, element_name |-> <<>>,
                     element_template |-> None, attr_path |-> <<>> ] >>
    /\ UNCHANGED <<xml, df, exc, platform, dataset, poll>>

\* db is None: raise ValueError before any element is walked.
ParseNoDatabase ==
    /\ pc = "parse"
    /\ ~xml.hasDb
    /\ pc' = "raised"
    /\ exc' = "ValueError"
    /\ UNCHANGED <<xml, stack, rows, emitted, df, platform, dataset, poll>>

\* rows = []; enter the loop over db.findall("./AFElement").
ParseStart ==
    /\ pc = "parse"
    /\ xml.hasDb
    /\ pc' = "walk"
    /\ rows' = <<>>
    /\ emitted' = <<>>
    /\ stack' = << Frame("parse_af_xml", 0, <<>>, FindAll(xml.nodes, 0, AFElement),
                         <<>>, <<>>, None, <<>>) >>
    /\ UNCHANGED <<xml, df, exc, platform, dataset, poll>>

\* One call of _walk_elements, from parse_af_xml (parent_path "") or from
\* the second loop of an enclosing _walk_elements, which runs only after
\* its first loop (over the AFAttribute children) is exhausted.  A call
\* that has nothing to loop over returns within the step.
CallWalkElements ==
    /\ pc = "walk"
    /\ Top.fn \in {"parse_af_xml", "_walk_elements"}
    /\ Top.attrs = <<>>
    /\ Top.elems # <<>>
    /\ LET e            == Head(Top.elems)
           element      == xml.nodes[e]
           parent_path  == IF Top.fn = "parse_af_xml" THEN <<>> ELSE Top.element_path
           element_name == ElementName(element)
           element_template == Txt(element.Template)
           element_path == JoinPath(parent_path, element_name)
       IN stack' = Unwind(Append(ReplaceTop([Top EXCEPT !.elems = Tail(@)]),
                                 Frame("_walk_elements", e,
                                       FindAll(xml.nodes, e, AFAttribute),
                                       FindAll(xml.nodes, e, AFElement),
                                       element_path, element_name, element_template,
                                       <<>>)))
    /\ UNCHANGED <<xml, pc, rows, emitted, df, exc, platform, dataset, poll>>

\* One call of _walk_attributes, from the first loop of _walk_elements
\* (attr_path_prefix "") or from the loop of an enclosing _walk_attributes
\* (attr_path_prefix = its attr_path): resolve the name, build the path,
\* append the row, then enter the loop over the nested attributes.
CallWalkAttributes ==
    /\ pc = "walk"
    /\ Top.fn \in {"_walk_elements", "_walk_attributes"}
    /\ Top.attrs # <<>>
    /\ LET a         == Head(Top.attrs)
           attr_elem == xml.nodes[a]
           attr_path_prefix == IF Top.fn = "_walk_elements" THEN <<>> ELSE Top.attr_path
           attr_name == AttrName(attr_elem)
           attr_path == JoinPath(attr_path_prefix, attr_name)
       IN /\ rows' = Append(rows, RowDict(attr_elem, Top.element_path, Top.element_name,
                                          Top.element_template, attr_path, attr_name))
          /\ emitted' = Append(emitted, a)
          /\ stack' = Unwind(Append(ReplaceTop([Top EXCEPT !.attrs = Tail(@)]),
                                    Frame("_walk_attributes", a,
                                          FindAll(xml.nodes, a, AFAttribute), <<>>,
                                          Top.element_path, Top.element_name,
                                          Top.element_template, attr_path)))
    /\ UNCHANGED <<xml, pc, df, exc, platform, dataset, poll>>

\* pd.DataFrame(rows): the columns are the keys of the dicts in order of
\* first appearance; an empty list gives a frame without columns.
DataFrame(rs) ==
    [ columns |-> SelectSeq(row_keys, LAMBDA c : \E i \in 1..Len(rs) : c \in DOMAIN rs[i]),
      data    |-> rs ]

\* A selection that also drops the columns that are None in every row.
SelectNonNull(d) ==
    LET keep == SelectSeq(ordered_cols,
                          LAMBDA c : \E i \in 1..Len(d.data) :
                                        c \in DOMAIN d.data[i] /\ d.data[i][c] # None)
        keys == {keep[j] : j \in 1..Len(keep)}
    IN [ columns |-> keep,
         data    |-> [i \in 1..Len(d.data) |-> [c \in keys |-> d.data[i][c]]] ]

\* df[[c for c in ordered_cols if c in df.columns]]
SelectOrdered(d) ==
    LET keep == SelectSeq(ordered_cols, LAMBDA c : \E j \in 1..Len(d.columns) : d.columns[j] = c)
        keys == {keep[j] : j \in 1..Len(keep)}
    IN [ columns |-> keep,
         data    |-> [i \in 1..Len(d.data) |-> [c \in keys |-> d.data[i][c]]] ]

\* The loop over the top-level elements is done: build and return the table.
ParseReturn ==
    /\ pc = "walk"
    /\ Top.fn = "parse_af_xml"
    /\ Top.elems = <<>>
    /\ df' = Some(SelectOrdered(DataFrame(rows)))
    /\ stack' = <<>>
    /\ pc' = "parsed"
    /\ UNCHANGED <<xml, rows, emitted, exc, platform, dataset, poll>>

NextParse ==
    \/ ParseNoDatabase
    \/ ParseStart
    \/ CallWalkElements
    \/ CallWalkAttributes
    \/ ParseReturn

\* ----------------------------------------------------------------- inputs
Tags == {AFElement, AFAttribute}

\* Trees of n nodes numbered breadth-first: a parent precedes its children
\* and siblings are numbered in document order.  AFElement nodes hang
\* below AFDatabase or an AFElement, AFAttribute nodes below an AFElement
\* or an AFAttribute; AFElement and AFAttribute siblings may interleave.
Shapes(n) ==
    { s \in [1..n -> [tag : Tags, parent : 0..(IF n = 0 THEN 0 ELSE n - 1)]] :
        /\ \A i \in 1..n : s[i].parent < i
        /\ \A i \in 1..n : i < n => s[i].parent <= s[i + 1].parent
        /\ \A i \in 1..n :
              IF s[i].tag = AFElement
              THEN s[i].parent = 0 \/ s[s[i].parent].tag = AFElement
              ELSE s[i].parent # 0 }

\* Name children tried, by tag: missing, blank and plain (AFElement);
\* missing, plain, and with the path separator inside or in front
\* (AFAttribute).
ElementNameChoices ==
    << NoChild, ChildText(<<" ">>), ChildText(<<"a">>) >>

AttributeNameChoices ==
    << NoChild, ChildText(<<"a">>), ChildText(<<"a", "/", "a">>), ChildText(<<"/", "a">>) >>

PlainName == << ChildText(<<"a">>) >>

\* Optional children of a node besides Name, by variant.
Node(tag, parent, name, variant) ==
    [ tag |-> tag, parent |-> parent, Name |-> name,
      Template |->
          IF tag = AFElement /\ variant = 2 THEN ChildText(<<"T">>)
          ELSE IF tag = AFElement /\ variant = 3 THEN ChildText(<<" ">>)
          ELSE NoChild,
      Type |-> IF tag = AFAttribute /\ variant = 3 THEN ChildText(<<"t">>) ELSE NoChild,
      DataReference |-> NoChild,
      ConfigString |-> IF tag = AFAttribute /\ variant = 3 THEN ChildNoText ELSE NoChild,
      Value |-> IF tag = AFAttribute /\ variant = 3 THEN ChildText(<<" ", "v">>) ELSE NoChild,
      Description |-> IF tag = AFAttribute /\ variant = 2 THEN ChildText(<<"d">>) ELSE NoChild ]

NameCount(tag, enames, anames) == IF tag = AFElement THEN Len(enames) ELSE Len(anames)

Document(maxn, enames, anames, variants) ==
    \E n \in 0..maxn : \E s \in Shapes(n) :
      \E nm \in [1..n -> 1..(IF Len(enames) > Len(anames) THEN Len(enames) ELSE Len(anames))] :
        /\ \A i \in 1..n : nm[i] <= NameCount(s[i].tag, enames, anames)
        /\ \E v \in [1..n -> variants] :
              xml = [ exists |-> TRUE, hasDb |-> TRUE,
                      nodes |-> [i \in 1..n |->
                          Node(s[i].tag, s[i].parent,
                               IF s[i].tag = AFElement THEN enames[nm[i]] ELSE anames[nm[i]],
                               v[i])] ]

NoDatabase == xml = [exists |-> TRUE, hasDb |-> FALSE, nodes |-> <<>>]

NoFile == xml = [exists |-> FALSE, hasDb |-> FALSE, nodes |-> <<>>]

Idle ==
    /\ stack = <<>>
    /\ rows = <<>>
    /\ emitted = <<>>
    /\ df = None
    /\ exc = "none"
    /\ platform = [uploads |-> 0, modifies |-> 0, warnings |-> 0]
    /\ dataset = None
    /\ poll = [ now |-> 0, start |-> 0, dataset |-> None, dataset_id |-> None,
                rows |-> None, cols |-> None, failed |-> FALSE, result |-> None ]

\* parse_af_xml called on a document with arbitrary names.
Init ==
    /\ Document(MaxNodes, ElementNameChoices, AttributeNameChoices, {1}) \/ NoDatabase
    /\ pc = "parse"
    /\ Idle

Spec == Init /\ [][NextParse]_vars

\* parse_af_xml called on a document with arbitrary optional children.
InitTable ==
    /\ Document(MaxNodes, PlainName, PlainName, 1..3) \/ NoDatabase
    /\ pc = "parse"
    /\ Idle

SpecTable == InitTable /\ [][NextParse]_vars

\* -------------------------------------------------------------------- main
DATAROBOT_DATASET_NAME == "Wind Farm Energy Price"

\* timeout= and interval= of the call in main.
Timeout == 60
Interval == 2

\* if not os.path.exists(XML_PATH): raise FileNotFoundError
MainStart ==
    /\ pc = "main"
    /\ IF xml.exists
       THEN pc' = "parse" /\ exc' = exc
       ELSE pc' = "raised" /\ exc' = "FileNotFoundError"
    /\ UNCHANGED <<xml, stack, rows, emitted, df, platform, dataset, poll>>

\* register_in_datarobot: dr.Client(); dataset = dr.Dataset.upload(df).
\* The Dataset object comes back at once; its counts may still be None.
RegisterUpload ==
    /\ pc = "parsed"
    /\ \E rc \in {None, Some(Len(Val(df).data))} :
       \E cc \in {None, Some(Len(Val(df).columns))} :
          dataset' = Some([ id |-> "ds-1", name |-> "af_model",
                            row_count |-> rc, column_count |-> cc ])
    /\ platform' = [platform EXCEPT !.uploads = @ + 1]
    /\ pc' = "modify"
    /\ UNCHANGED <<xml, stack, rows, emitted, df, exc, poll>>

\* dr.Client() or dr.Dataset.upload raises: nothing catches it.
RegisterUploadFails ==
    /\ pc = "parsed"
    /\ pc' = "raised"
    /\ exc' = "UploadError"
    /\ UNCHANGED <<xml, stack, rows, emitted, df, platform, dataset, poll>>

\* try: dataset.modify(name=dataset_name) succeeds; return dataset.
RegisterRename ==
    /\ pc = "modify"
    /\ dataset' = Some([Val(dataset) EXCEPT !.name = DATAROBOT_DATASET_NAME])
    /\ platform' = [platform EXCEPT !.modifies = @ + 1]
    /\ pc' = "summary"
    /\ UNCHANGED <<xml, stack, rows, emitted, df, exc, poll>>

\* A rename failure that is not caught.
RegisterRenamePropagates ==
    /\ pc = "modify"
    /\ platform' = [platform EXCEPT !.modifies = @ + 1]
    /\ pc' = "raised"
    /\ exc' = "RenameError"
    /\ UNCHANGED <<xml, stack, rows, emitted, df, dataset, poll>>

\* except Exception: print the warning; return dataset.
RegisterRenameFails ==
    /\ pc = "modify"
    /\ platform' = [platform EXCEPT !.modifies = @ + 1, !.warnings = @ + 1]
    /\ pc' = "summary"
    /\ UNCHANGED <<xml, stack, rows, emitted, df, exc, dataset, poll>>

\* print_dataset_summary(dataset); quick_local_and_platform_check(df, dataset)
PrintSummaries ==
    /\ pc = "summary"
    /\ IF IsNone(dataset)
       THEN pc' = "raised" /\ exc' = "ValueError"
       ELSE pc' = "poll_enter" /\ exc' = exc
    /\ UNCHANGED <<xml, stack, rows, emitted, df, platform, dataset, poll>>

\* get_dataset_summary_with_refresh up to start = time.time().
PollEnter ==
    /\ pc = "poll_enter"
    /\ IF IsNone(dataset)
       THEN pc' = "raised" /\ exc' = "ValueError" /\ poll' = poll
       ELSE /\ pc' = "poll_test"
            /\ exc' = exc
            /\ poll' = [poll EXCEPT !.dataset = dataset,
                                    !.dataset_id = Some(Val(dataset).id),
                                    !.rows = Val(dataset).row_count,
                                    !.cols = Val(dataset).column_count,
                                    !.start = poll.now]
    /\ UNCHANGED <<xml, stack, rows, emitted, df, platform, dataset>>

\* while cols is None and (time.time() - start) < timeout
PollCondition(p) == IsNone(p.cols) /\ (p.now - p.start) < Timeout

PollTest ==
    /\ pc = "poll_test"
    /\ pc' = IF PollCondition(poll) THEN "poll_get" ELSE "poll_return"
    /\ UNCHANGED <<xml, stack, rows, emitted, df, exc, platform, dataset, poll>>

\* refreshed = dr.Dataset.get(dataset_id) returns after d seconds; a
\* missing row_count attribute keeps rows, column_count may still be None.
PollGet ==
    /\ pc = "poll_get"
    /\ \E d \in 0..MaxGetDelay :
       \E rc \in {poll.rows, Some(Len(Val(df).data))} :
       \E cc \in {None, Some(Len(Val(df).columns))} :
          /\ poll' = [poll EXCEPT !.now = @ + d, !.rows = rc, !.cols = cc,
                                  !.failed = FALSE,
                                  !.dataset = Some([ id |-> Val(poll.dataset_id),
                                                     name |-> Val(dataset).name,
                                                     row_count |-> rc,
                                                     column_count |-> cc ])]
          /\ pc' = IF IsNone(cc) THEN "poll_sleep" ELSE "poll_test"
    /\ UNCHANGED <<xml, stack, rows, emitted, df, exc, platform, dataset>>

\* A refresh failure that is not caught.
PollGetPropagates ==
    /\ pc = "poll_get"
    /\ \E d \in 0..MaxGetDelay : poll' = [poll EXCEPT !.now = @ + d, !.failed = TRUE]
    /\ pc' = "raised"
    /\ exc' = "RefreshError"
    /\ UNCHANGED <<xml, stack, rows, emitted, df, platform, dataset>>

\* dr.Dataset.get raises after d seconds: except Exception prints the
\* debug line and goes on.
PollGetFails ==
    /\ pc = "poll_get"
    /\ \E d \in 0..MaxGetDelay : poll' = [poll EXCEPT !.now = @ + d, !.failed = TRUE]
    /\ pc' = IF IsNone(poll.cols) THEN "poll_sleep" ELSE "poll_test"
    /\ UNCHANGED <<xml, stack, rows, emitted, df, exc, platform, dataset>>

\* time.sleep(interval)
PollSleep ==
    /\ pc = "poll_sleep"
    /\ poll' = [poll EXCEPT !.now = @ + Interval]
    /\ pc' = "poll_test"
    /\ UNCHANGED <<xml, stack, rows, emitted, df, exc, platform, dataset>>

\* return {"dataset": dataset, "id": dataset_id, "rows": rows, "columns": cols}
PollReturn ==
    /\ pc = "poll_return"
    /\ poll' = [poll EXCEPT !.result = Some([ dataset |-> poll.dataset,
                                              id |-> poll.dataset_id,
                                              rows |-> poll.rows,
                                              columns |-> poll.cols ])]
    /\ pc' = "done"
    /\ UNCHANGED <<xml, stack, rows, emitted, df, exc, platform, dataset>>

NextMain ==
    \/ MainStart
    \/ NextParse
    \/ RegisterUpload
    \/ RegisterUploadFails
    \/ RegisterRename
    \/ RegisterRenameFails
    \/ PrintSummaries
    \/ PollEnter
    \/ PollTest
    \/ PollGet
    \/ PollGetFails
    \/ PollSleep
    \/ PollReturn

\* main() run on small documents, on a document without AFDatabase and
\* without the downloaded file.
InitMain ==
    /\ Document(MaxMainNodes, PlainName, PlainName, {1}) \/ NoDatabase \/ NoFile
    /\ pc = "main"
    /\ Idle

SpecMain == InitMain /\ [][NextMain]_vars

\* Every step of a Python run that can be taken is eventually taken, and
\* the platform calls return.
FairSpecMain == SpecMain /\ WF_vars(NextMain)

\* ============================================================ properties
\* The source tree, read through parent pointers (not through the walkers).
N == xml.nodes
NodeIds == 1..Len(N)
AttributeNodes == {i \in NodeIds : N[i].tag = AFAttribute}

Children(p, tag) ==
    SelectSeq([i \in NodeIds |-> i], LAMBDA i : N[i].parent = p /\ N[i].tag = tag)

\* The Element that encloses attribute node a.
RECURSIVE ElementOf(_)
ElementOf(a) == IF N[a].tag = AFElement THEN a ELSE ElementOf(N[a].parent)

\* The Elements from the top-level one down to e.
RECURSIVE ElemChain(_)
ElemChain(e) == IF N[e].parent = 0 THEN <<e>> ELSE Append(ElemChain(N[e].parent), e)

\* The Attributes from the one owned by the Element down to a.
RECURSIVE AttrChain(_)
AttrChain(a) ==
    IF N[N[a].parent].tag = AFAttribute THEN Append(AttrChain(N[a].parent), a) ELSE <<a>>

IsAncestor(a, b) == \E j \in 1..(Len(AttrChain(b)) - 1) : AttrChain(b)[j] = a

\* '/'.join(names), for a non-empty list of names.
RECURSIVE Join(_)
Join(names) ==
    IF Len(names) = 1 THEN names[1]
    ELSE Join(SubSeq(names, 1, Len(names) - 1)) \o <<"/">> \o names[Len(names)]

\* s.split('/')
RECURSIVE Split(_)
Split(s) ==
    IF \A i \in 1..Len(s) : s[i] # "/" THEN <<s>>
    ELSE LET k == CHOOSE i \in 1..Len(s) : s[i] = "/" /\ \A j \in 1..(i - 1) : s[j] # "/"
         IN <<SubSeq(s, 1, k - 1)>> \o Split(SubSeq(s, k + 1, Len(s)))

NoEmptySegment(s) == \A i \in 1..Len(Split(s)) : Split(s)[i] # <<>>

EndsWith(s, t) == Len(t) <= Len(s) /\ SubSeq(s, Len(s) - Len(t) + 1, Len(s)) = t

IsPrefix(s, t) == Len(s) <= Len(t) /\ SubSeq(t, 1, Len(s)) = s

\* p equals q or is a prefix of q that ends at a '/' of q.
SegPrefix(p, q) == p = q \/ IsPrefix(p \o <<"/">>, q)

\* Depth-first pre-order of the attribute nodes, attributes of an Element
\* before its child Elements, document order at every level.
RECURSIVE PreAttrs(_)
PreAttrs(as) ==
    IF as = <<>> THEN <<>>
    ELSE <<Head(as)>> \o PreAttrs(Children(Head(as), AFAttribute)) \o PreAttrs(Tail(as))

RECURSIVE PreElems(_)
PreElems(es) ==
    IF es = <<>> THEN <<>>
    ELSE PreAttrs(Children(Head(es), AFAttribute))
         \o PreElems(Children(Head(es), AFElement))
         \o PreElems(Tail(es))

PreOrder == PreElems(Children(0, AFElement))

Times(a) == Cardinality({k \in 1..Len(emitted) : emitted[k] = a})

\* C1: when the traversal started by parse_af_xml has finished, there are
\* as many records (and table rows) as attribute nodes below the top-level
\* Elements, and every attribute node has produced exactly one of them.
C1_OneRecordPerAttribute ==
    pc = "parsed" =>
        /\ Len(rows) = Cardinality(AttributeNodes)
        /\ Len(emitted) = Len(rows)
        /\ Len(Val(df).data) = Len(rows)
        /\ \A a \in AttributeNodes : Times(a) = 1

\* C1 witness: a finished traversal that produced three records, one of
\* them for a nested attribute.
C1_Witness ==
    /\ pc = "parsed"
    /\ Len(rows) = 3
    /\ \E a \in AttributeNodes : N[N[a].parent].tag = AFAttribute

\* C2: the records appear in depth-first pre-order of the source tree
\* (an attribute before its nested attributes, its whole subtree before
\* its next sibling, the attributes of an Element before the records of
\* its child Elements, everything in document order), and a step never
\* removes or reorders records that were already appended.
C2_DocumentOrder ==
    /\ [](pc = "parsed" =>
            /\ emitted = PreOrder
            /\ \A k \in 1..Len(rows) :
                  rows[k].attribute_name = AttrName(N[emitted[k]]))
    /\ [][IsPrefix(rows, rows') /\ IsPrefix(emitted, emitted')]_vars

\* C2 witness: an Element whose child Element, itself with an attribute,
\* precedes one of its own attributes in the document; the record of the
\* own attribute comes first.
C2_Witness ==
    /\ pc = "parsed"
    /\ \E e, a, b \in NodeIds :
          /\ N[e].tag = AFElement /\ N[a].tag = AFAttribute /\ N[b].tag = AFAttribute
          /\ N[e].parent = N[a].parent /\ e < a
          /\ N[b].parent = e
          /\ emitted = <<a, b>>

NamesOf(chain, nameOf(_)) == [j \in 1..Len(chain) |-> nameOf(N[chain[j]])]

\* C3: element_path is the '/'-join of the resolved names of the Elements
\* from the top-level one down to the enclosing one, attribute_path the
\* '/'-join of the resolved names of the Attributes from the one owned by
\* that Element down to this one; so the paths end with element_name and
\* attribute_name.
C3_PathsAreJoins ==
    pc = "parsed" =>
        \A k \in 1..Len(rows) :
            LET a == emitted[k]
                e == ElementOf(a)
            IN /\ rows[k].element_name = ElementName(N[e])
               /\ rows[k].attribute_name = AttrName(N[a])
               /\ rows[k].element_path = Join(NamesOf(ElemChain(e), ElementName))
               /\ rows[k].attribute_path = Join(NamesOf(AttrChain(a), AttrName))
               /\ EndsWith(rows[k].element_path, rows[k].element_name)
               /\ EndsWith(rows[k].attribute_path, rows[k].attribute_name)

\* C3 witness: a record of a nested attribute below a nested Element.
C3_Witness ==
    /\ pc = "parsed"
    /\ \E k \in 1..Len(rows) :
          /\ Len(AttrChain(emitted[k])) = 2
          /\ Len(ElemChain(ElementOf(emitted[k]))) = 2
          /\ rows[k].attribute_path # rows[k].attribute_name
          /\ rows[k].element_path # rows[k].element_name

\* Two records of distinct attribute nodes below the same Element, neither
\* nested under the other.
Unrelated(k, l) ==
    /\ k # l
    /\ ElementOf(emitted[k]) = ElementOf(emitted[l])
    /\ ~IsAncestor(emitted[k], emitted[l])
    /\ ~IsAncestor(emitted[l], emitted[k])

PathsComparable(k, l) ==
    \/ SegPrefix(rows[k].attribute_path, rows[l].attribute_path)
    \/ SegPrefix(rows[l].attribute_path, rows[k].attribute_path)

\* The position at which the ancestries of two unrelated attributes part:
\* the nodes there are siblings.
ForkAt(a, b) ==
    CHOOSE j \in 1..Len(AttrChain(a)) :
        /\ j <= Len(AttrChain(b))
        /\ AttrChain(a)[j] # AttrChain(b)[j]
        /\ \A i \in 1..(j - 1) : AttrChain(a)[i] = AttrChain(b)[i]

ForkNamesComparable(a, b) ==
    LET j == ForkAt(a, b)
        x == AttrName(N[AttrChain(a)[j]])
        y == AttrName(N[AttrChain(b)[j]])
    IN SegPrefix(x, y) \/ SegPrefix(y, x)

\* C4 as stated: for two distinct attribute nodes below the same Element,
\* neither an ancestor of the other, the attribute_path of one is neither
\* equal to nor a '/'-segment prefix of the other, whatever their names.
C4_AsStated ==
    pc = "parsed" =>
        \A k, l \in 1..Len(rows) : Unrelated(k, l) => ~PathsComparable(k, l)

\* C4 amended: the same, provided the resolved names of the two sibling
\* attributes at which the two ancestries part are not equal and neither
\* is a '/'-segment prefix of the other.
C4_DistinctForkNames ==
    pc = "parsed" =>
        \A k, l \in 1..Len(rows) :
            (Unrelated(k, l) /\ ~ForkNamesComparable(emitted[k], emitted[l]))
                => ~PathsComparable(k, l)

\* C4 witness: two unrelated attributes, one of them nested, whose names
\* part at siblings with incomparable names, one name containing '/'.
C4_Witness ==
    /\ pc = "parsed"
    /\ \E k, l \in 1..Len(rows) :
          /\ Unrelated(k, l)
          /\ ~ForkNamesComparable(emitted[k], emitted[l])
          /\ Len(AttrChain(emitted[k])) = 2
          /\ \E i \in 1..Len(rows[l].attribute_name) : rows[l].attribute_name[i] = "/"

\* A Name child that is missing, has no text, or has only white space.
BlankName(node) ==
    \/ node.Name = NoChild
    \/ node.Name = ChildNoText
    \/ \A i \in 1..Len(Val(Val(node.Name))) : Val(Val(node.Name))[i] = " "

\* The segment of element_path written for the j-th Element of the chain
\* is the string sentinel.
SegmentIs(path, chain, j, sentinel) ==
    LET before == IF j = 1 THEN 0
                  ELSE Len(Join(NamesOf(SubSeq(chain, 1, j - 1), ElementName))) + 1
        last   == before + Len(sentinel)
    IN /\ last <= Len(path)
       /\ SubSeq(path, before + 1, last) = sentinel
       /\ (j = Len(chain)) = (last = Len(path))
       /\ last < Len(path) => path[last + 1] = "/"

NamedBy(sentinel) ==
    \A k \in 1..Len(rows) :
        LET chain == ElemChain(ElementOf(emitted[k]))
        IN \A j \in 1..Len(chain) :
              BlankName(N[chain[j]]) =>
                  /\ SegmentIs(rows[k].element_path, chain, j, sentinel)
                  /\ j = Len(chain) => rows[k].element_name = sentinel

C8_AsStated ==
    pc = "parsed" =>
        \A k \in 1..Len(rows) :
            NoEmptySegment(rows[k].element_path) /\ NoEmptySegment(rows[k].attribute_path)

\* C8 amended: a path has no empty segment when none of the names joined
\* into it, after trimming, begins or ends with '/' or contains '//'
\* (missing and blank names are replaced by a sentinel and add none).
C8_NoEmptySegment ==
    pc = "parsed" =>
        \A k \in 1..Len(rows) :
            LET a  == emitted[k]
                ec == ElemChain(ElementOf(a))
                ac == AttrChain(a)
                Clean(node) ==
                    BlankName(node) \/ NoEmptySegment(Strip(Val(Val(node.Name))))
            IN /\ (\A j \in 1..Len(ec) : Clean(N[ec[j]]))
                     => NoEmptySegment(rows[k].element_path)
               /\ (\A j \in 1..Len(ac) : Clean(N[ac[j]]))
                     => NoEmptySegment(rows[k].attribute_path)

\* C8 witness: a record with unnamed and '/'-carrying names on its way
\* whose two paths have several segments, none of them empty.
C8_Witness ==
    /\ pc = "parsed"
    /\ \E k \in 1..Len(rows) :
          /\ Len(Split(rows[k].attribute_path)) = 3
          /\ Len(Split(rows[k].element_path)) = 2
          /\ BlankName(N[ElementOf(emitted[k])])
          /\ NoEmptySegment(rows[k].element_path)
          /\ NoEmptySegment(rows[k].attribute_path)

\* ---------------------------------------------------------------- table
Table == Val(df)
ColumnSet == {Table.columns[j] : j \in 1..Len(Table.columns)}

\* The columns whose value is an Optional; the other four are always set.
OptionalColumns ==
    { "element_template", "attribute_type", "data_reference", "config_string",
      "static_value", "description" }

HasValue(c) == \E i \in 1..Len(rows) : c \notin OptionalColumns \/ rows[i][c] # None

RowsKept ==
    /\ Len(Table.data) = Len(rows)
    /\ \A i \in 1..Len(rows) :
          /\ DOMAIN Table.data[i] = ColumnSet
          /\ \A c \in ColumnSet : Table.data[i][c] = rows[i][c]

\* C7 as stated: the table has, in the fixed order, exactly the columns
\* that have a value in some record; a column that is null in every
\* record is absent.
C7_AsStated ==
    pc = "parsed" => Table.columns = SelectSeq(ordered_cols, HasValue)

\* C7 amended: the table keeps the rows in record order and has all ten
\* columns in the fixed order as soon as there is one record, a column
\* that is null in every record included; it has no column only when
\* there is no record.
C7_AllColumnsOrNone ==
    pc = "parsed" =>
        /\ Table.columns = IF rows = <<>> THEN <<>> ELSE ordered_cols
        /\ RowsKept

\* C7 witness: a table of several rows in which no record has a
\* data_reference, some but not all have a description, and the column
\* data_reference is present.
C7_Witness ==
    /\ pc = "parsed"
    /\ Len(Table.data) >= 2
    /\ ~HasValue("data_reference")
    /\ "data_reference" \in ColumnSet
    /\ \E i, j \in 1..Len(rows) : rows[i].description = None /\ rows[j].description # None
    /\ \E i \in 1..Len(rows) : rows[i].element_template # None

\* ------------------------------------------------------------------ main
PollPcs == {"poll_enter", "poll_test", "poll_get", "poll_sleep", "poll_return"}

\* C6: without an AFDatabase node parse_af_xml raises before any element
\* is walked: no record is accumulated, no table is returned, and main
\* never reaches the upload, the rename or the polling.
C6_NoDatabaseNoTable ==
    (xml.exists /\ ~xml.hasDb) =>
        /\ pc \in {"main", "parse", "raised"}
        /\ pc = "raised" => exc = "ValueError"
        /\ stack = <<>> /\ rows = <<>> /\ emitted = <<>>
        /\ df = None
        /\ dataset = None
        /\ platform.uploads = 0 /\ platform.modifies = 0
        /\ poll.result = None

\* C6 witness: the run has ended with the ValueError of parse_af_xml.
C6_Witness == ~xml.hasDb /\ pc = "raised" /\ exc = "ValueError"

Elapsed == poll.now - poll.start

C10_RenameFailureTolerated ==
    /\ [](platform.modifies <= platform.uploads /\ platform.modifies <= 1)
    /\ [](pc \in {"summary"} \cup PollPcs \cup {"done"} =>
            /\ platform.modifies = 1
            /\ dataset # None
            /\ Val(dataset).id = "ds-1")
    /\ [](platform.warnings > 0 => pc # "raised" /\ exc = "none")
    /\ [](pc = "done" => Val(poll.result).id = Some("ds-1"))
    /\ [][pc = "modify" =>
            /\ pc' = "summary"
            /\ Val(dataset').id = Val(dataset).id
            /\ platform'.modifies = platform.modifies + 1]_vars
    /\ (platform.warnings > 0) ~> (pc = "done")

\* C10 witness: main has finished after a rename that failed; the
\* dataset still carries the name the upload gave it.
C10_Witness ==
    /\ pc = "done"
    /\ platform.warnings = 1
    /\ Val(dataset).name # DATAROBOT_DATASET_NAME
    /\ Val(poll.result).id = Some("ds-1")

====
